---------------------------- MODULE Spec2Model ----------------------------
(***************************************************************************)
(* Model of crates/bevy_ui/src/widget/progress_bar.rs: the Progress        *)
(* component (a clamped f32), the ProgressBarAnimation policy and          *)
(* progress_bar_animation_system.                                          *)
(*                                                                         *)
(* f32 values are modelled exactly on the grid of multiples of 2^-23 (the  *)
(* value of f32::EPSILON): a finite float is the integer number of such    *)
(* units.  Every multiple of 2^-23 below 2.0 is an f32, and above 2.0 the  *)
(* f32 values are the multiples of the binade's ulp, so rounding to        *)
(* nearest-even on this grid is the rounding the hardware does.  NaN, the  *)
(* two infinities and the negative zero are values of their own.           *)
(***************************************************************************)
EXTENDS Integers, Sequences, FiniteSets, TLC

VARIABLES
    pv,        \* a stand-alone Progress value (the f32 it wraps)
    last,      \* the last operation applied to pv: [op, arg, prev]
    nops,      \* how many operations were applied to pv
    alive,     \* the entities that exist
    progress,  \* entity -> Progress component
    mode,      \* entity -> ProgressBarAnimation component
    style,     \* entity -> Style.size: [width, height]
    seen       \* entity -> the Progress the change detection observed last

pvars == <<pv, last, nops>>
wvars == <<alive, progress, mode, style, seen>>
vars == <<pv, last, nops, alive, progress, mode, style, seen>>

----------------------------------------------------------------------------
(* Bounds of the model *)

\* operations applied to the stand-alone Progress value in one behaviour
MaxOps == 3
\* finite inputs are the multiples of 25.0 from -25.0*MaxIn to 25.0*MaxIn
MaxIn == 5
\* entities of the world
NumEntities == 2

----------------------------------------------------------------------------
(* f32 *)

\* number of grid units in 1.0; one unit is 2^-23 = f32::EPSILON
Unit == 2^23

F(n) == [k |-> "fin", v |-> n]
NegZero == [k |-> "nzero", v |-> 0]
NaN == [k |-> "nan", v |-> 0]
PInf == [k |-> "pinf", v |-> 0]
NInf == [k |-> "ninf", v |-> 0]

IsNaN(x) == x.k = "nan"
IsFinite(x) == x.k \in {"fin", "nzero"}

Abs(n) == IF n < 0 THEN -n ELSE n

\* the spacing of f32 values around a magnitude of a units
Ulp(a) ==
    IF a < 2^24 THEN 1
    ELSE IF a < 2^25 THEN 2
    ELSE IF a < 2^26 THEN 4
    ELSE IF a < 2^27 THEN 8
    ELSE IF a < 2^28 THEN 16
    ELSE IF a < 2^29 THEN 32
    ELSE IF a < 2^30 THEN 64
    ELSE 128

\* round an exact result of s units to the nearest f32, ties to even
RoundF32(s) ==
    LET a == Abs(s)
        u == Ulp(a)
        q == a \div u
        r == a % u
        up == (2 * r > u) \/ (2 * r = u /\ q % 2 = 1)
        m == IF up THEN (q + 1) * u ELSE q * u
    IN  IF s < 0 THEN -m ELSE m

\* a < b on f32: false whenever a NaN is involved, -0.0 and 0.0 are equal
FLt(a, b) ==
    /\ ~IsNaN(a)
    /\ ~IsNaN(b)
    /\ CASE a.k = "pinf" -> FALSE
         [] a.k = "ninf" -> b.k # "ninf"
         [] b.k = "pinf" -> TRUE
         [] b.k = "ninf" -> FALSE
         [] OTHER -> a.v < b.v

\* a == b on f32
FEq(a, b) ==
    /\ ~IsNaN(a)
    /\ ~IsNaN(b)
    /\ IF IsFinite(a) /\ IsFinite(b) THEN a.v = b.v ELSE a.k = b.k

FLe(a, b) == FLt(a, b) \/ FEq(a, b)

FNeg(a) ==
    CASE a.k = "nan" -> NaN
      [] a.k = "pinf" -> NInf
      [] a.k = "ninf" -> PInf
      [] a.k = "nzero" -> F(0)
      [] OTHER -> IF a.v = 0 THEN NegZero ELSE F(-a.v)

FAbs(a) ==
    CASE a.k = "nan" -> NaN
      [] a.k \in {"pinf", "ninf"} -> PInf
      [] OTHER -> F(Abs(a.v))

\* a + b on f32, round to nearest
FAdd(a, b) ==
    CASE IsNaN(a) \/ IsNaN(b) -> NaN
      [] ~IsFinite(a) /\ ~IsFinite(b) -> IF a.k = b.k THEN a ELSE NaN
      [] ~IsFinite(a) -> a
      [] ~IsFinite(b) -> b
      [] OTHER ->
            LET s == a.v + b.v
            IN  IF s = 0
                THEN IF a.k = "nzero" /\ b.k = "nzero" THEN NegZero ELSE F(0)
                ELSE F(RoundF32(s))

FSub(a, b) == FAdd(a, FNeg(b))

\* f32::clamp(self, min, max)
FClamp(x, min, max) ==
    LET y == IF FLt(x, min) THEN min ELSE x
    IN  IF FLt(max, y) THEN max ELSE y

EPSILON == F(1)
Zero == F(0)
Hundred == F(100 * Unit)

----------------------------------------------------------------------------
(* Progress *)

clamp_value(value) == FClamp(value, Zero, Hundred)

Progress_new(value) == clamp_value(value)

Progress_empty == Progress_new(Zero)

\* #[derive(Default)] on Progress(f32)
Progress_default == Zero

\* set that stores its argument as it is given
Progress_set_unclamped(self, value) == value

Progress_set(self, value) == clamp_value(value)

\* is_done that compares the signed difference
is_done_signed(self) == FLt(FSub(self, Hundred), EPSILON)

is_done(self) == FLt(FAbs(FSub(self, Hundred)), EPSILON)

\* += that stores the sum without going through set
add_assign_unclamped(self, rhs) == FAdd(self, rhs)

add_assign(self, rhs) == Progress_set(self, FAdd(self, rhs))

\* the inputs tried: multiples of 25.0 on both sides of the range, values
\* next to the bounds, and the non-finite and signed-zero floats
FiniteInputs ==
    {F(25 * k * Unit) : k \in (-MaxIn)..MaxIn}
        \cup {F(1), F(-1), F(99 * Unit), F(100 * Unit - 64), F(-64), NegZero}

Inputs == FiniteInputs \cup {NaN, PInf, NInf}

Op(o, a, p) == [op |-> o, arg |-> a, prev |-> p]

Init ==
    /\ pv = Progress_default
    /\ last = Op("default", Zero, Zero)
    /\ nops = 0
    /\ alive = {}
    /\ progress = <<>>
    /\ mode = <<>>
    /\ style = <<>>
    /\ seen = <<>>

New(v) ==
    /\ nops < MaxOps
    /\ pv' = Progress_new(v)
    /\ last' = Op("new", v, pv)
    /\ nops' = nops + 1
    /\ UNCHANGED wvars

Empty ==
    /\ nops < MaxOps
    /\ pv' = Progress_empty
    /\ last' = Op("empty", Zero, pv)
    /\ nops' = nops + 1
    /\ UNCHANGED wvars

Default ==
    /\ nops < MaxOps
    /\ pv' = Progress_default
    /\ last' = Op("default", Zero, pv)
    /\ nops' = nops + 1
    /\ UNCHANGED wvars

Set(v) ==
    /\ nops < MaxOps
    /\ pv' = Progress_set(pv, v)
    /\ last' = Op("set", v, pv)
    /\ nops' = nops + 1
    /\ UNCHANGED wvars

AddAssign(d) ==
    /\ nops < MaxOps
    /\ pv' = add_assign(pv, d)
    /\ last' = Op("add", d, pv)
    /\ nops' = nops + 1
    /\ UNCHANGED wvars

NextP ==
    \/ \E v \in Inputs : New(v)
    \/ Empty
    \/ Default
    \/ \E v \in Inputs : Set(v)
    \/ \E d \in Inputs : AddAssign(d)

SpecP == Init /\ [][NextP]_vars

----------------------------------------------------------------------------
(* ProgressBarAnimation, Style and the entities that carry them *)

Entities == 1..NumEntities

ResizeWidth == "ResizeWidth"
ResizeHeight == "ResizeHeight"
ResizeBothDimensions == "ResizeBothDimensions"
Custom == "Custom"

ProgressBarAnimation == {ResizeWidth, ResizeHeight, ResizeBothDimensions, Custom}

\* crate::Val, the variants this code meets
Percent(x) == [u |-> "Percent", x |-> x]
Px(x) == [u |-> "Px", x |-> x]

\* Style.size as the example of ProgressBarAnimation::Custom spawns it
ExampleSize == [width |-> Px(Hundred), height |-> Px(Hundred)]

\* the change detection has not observed this component yet
Unseen == [k |-> "none", v |-> 0]

\* the values the world's owners pass to Progress::set and to +=
WorldSet == {F(75 * Unit), F(150 * Unit), NaN}
WorldAdd == {Zero, Hundred}

\* f extended by e |-> x
Insert(f, e, x) == [y \in DOMAIN f \cup {e} |-> IF y = e THEN x ELSE f[y]]

\* an entity is spawned with Progress::new(v), an animation mode and a Style
Spawn(e, m, v) ==
    /\ e \notin alive
    /\ alive' = alive \cup {e}
    /\ progress' = Insert(progress, e, Progress_new(v))
    /\ mode' = Insert(mode, e, m)
    /\ style' = Insert(style, e, ExampleSize)
    /\ seen' = Insert(seen, e, Unseen)
    /\ UNCHANGED pvars

\* progress.set(v) on an entity's component
SetProgress(e, v) ==
    /\ e \in alive
    /\ progress' = [progress EXCEPT ![e] = Progress_set(@, v)]
    /\ UNCHANGED <<alive, mode, style, seen>>
    /\ UNCHANGED pvars

\* *progress += d on an entity's component
AddProgress(e, d) ==
    /\ e \in alive
    /\ progress' = [progress EXCEPT ![e] = add_assign(@, d)]
    /\ UNCHANGED <<alive, mode, style, seen>>
    /\ UNCHANGED pvars

\* the owner of the Style writes its size
SetStyle(e) ==
    /\ e \in alive
    /\ style' = [style EXCEPT ![e] = ExampleSize]
    /\ UNCHANGED <<alive, progress, mode, seen>>
    /\ UNCHANGED pvars

\* Changed<Progress>: the entities whose Progress differs from the one the
\* previous pass observed
Changed == {e \in alive : seen[e] # progress[e]}

\* a match whose ResizeWidth arm selects both dimensions
Resize_width_both(dimension) ==
    CASE dimension = ResizeWidth -> <<TRUE, TRUE>>
      [] dimension = ResizeHeight -> <<FALSE, TRUE>>
      [] dimension = ResizeBothDimensions -> <<TRUE, TRUE>>
      [] dimension = Custom -> <<FALSE, FALSE>>

\* a match whose Custom arm selects both dimensions
Resize_custom_both(dimension) ==
    CASE dimension = ResizeWidth -> <<TRUE, FALSE>>
      [] dimension = ResizeHeight -> <<FALSE, TRUE>>
      [] dimension = ResizeBothDimensions -> <<TRUE, TRUE>>
      [] dimension = Custom -> <<TRUE, TRUE>>

\* the match on the animation mode: <<resize_width, resize_height>>
Resize(dimension) ==
    CASE dimension = ResizeWidth -> <<TRUE, FALSE>>
      [] dimension = ResizeHeight -> <<FALSE, TRUE>>
      [] dimension = ResizeBothDimensions -> <<TRUE, TRUE>>
      [] dimension = Custom -> <<FALSE, FALSE>>

\* a loop body that adds the progress to the size it finds
LoopBody_accumulate(e, st) ==
    LET rs == Resize(mode[e])
        w == IF rs[1] THEN Percent(FAdd(st[e].width.x, progress[e])) ELSE st[e].width
        h == IF rs[2] THEN Percent(FAdd(st[e].height.x, progress[e])) ELSE st[e].height
    IN  [st EXCEPT ![e] = [width |-> w, height |-> h]]

\* a loop body that writes through one Style shared by every entity
LoopBody_shared(e, st) ==
    LET rs == Resize(mode[e])
    IN  [x \in DOMAIN st |->
            [width |-> IF rs[1] THEN Percent(progress[e]) ELSE st[x].width,
             height |-> IF rs[2] THEN Percent(progress[e]) ELSE st[x].height]]

\* one iteration of the loop, on entity e; st is every entity's Style.size
LoopBody(e, st) ==
    LET rs == Resize(mode[e])
        w == IF rs[1] THEN Percent(progress[e]) ELSE st[e].width
        h == IF rs[2] THEN Percent(progress[e]) ELSE st[e].height
    IN  [st EXCEPT ![e] = [width |-> w, height |-> h]]

\* the loop over query.iter_mut(), in the order the query yields
RECURSIVE RunSystem(_, _)
RunSystem(order, st) ==
    IF order = <<>> THEN st
    ELSE RunSystem(Tail(order), LoopBody(Head(order), st))

\* the orders in which a query can yield the entities of S
Orders(S) ==
    {o \in [1..Cardinality(S) -> S] : \A i, j \in 1..Cardinality(S) : o[i] = o[j] => i = j}

\* a query without the Changed<Progress> filter
Query_unfiltered == alive

\* the entities the query of the system yields
Query == Changed

\* one pass: the system runs over the entities its query yields, and the
\* change detection takes the Progress values it has now shown as observed
progress_bar_animation_system ==
    /\ UNCHANGED pvars
    /\ UNCHANGED <<alive, progress, mode>>
    /\ seen' = [e \in alive |-> progress[e]]
    /\ \E order \in Orders(Query) : style' = RunSystem(order, style)

Next ==
    \/ \E e \in Entities, m \in ProgressBarAnimation, v \in WorldSet : Spawn(e, m, v)
    \/ \E e \in Entities, v \in WorldSet : SetProgress(e, v)
    \/ \E e \in Entities, d \in WorldAdd : AddProgress(e, d)
    \/ \E e \in Entities : SetStyle(e)
    \/ progress_bar_animation_system

Spec == Init /\ [][Next]_vars

----------------------------------------------------------------------------
(* Properties of Progress, checked under SpecP *)

\* 0.0 <= x <= 100.0 on f32
InRange(x) == FLe(Zero, x) /\ FLe(x, Hundred)

\* C1: after any sequence of new, empty, default, set and += with any
\* inputs, the stored value satisfies 0.0 <= value <= 100.0.
C1_ValueInRange == InRange(pv)

\* C5: for a current value c in [0, 100] and a finite delta d, += d stores
\* c + d clamped to [0, 100]: 100.0 when c + d is above 100, 0.0 when it is
\* below 0, the f32 nearest to c + d in between, and c itself when d is 0.0.
C5_AddSaturates ==
    (last.op = "add" /\ InRange(last.prev) /\ IsFinite(last.arg)) =>
        LET s == last.prev.v + last.arg.v
        IN  /\ IsFinite(pv)
            /\ s > 100 * Unit => pv.v = 100 * Unit
            /\ s < 0 => pv.v = 0
            /\ (0 <= s /\ s <= 100 * Unit) => 2 * Abs(pv.v - s) <= Ulp(Abs(s))
            /\ last.arg.v = 0 => FEq(pv, last.prev)

C5_Witness ==
    /\ last.op = "add"
    /\ last.prev = F(75 * Unit)
    /\ last.arg = F(50 * Unit)
    /\ pv = Hundred

\* C6: for finite v1 and v2, new(v1) followed by set(v2) stores what new(v2)
\* stores, which is v2 clamped to [0, 100], whatever the value before.
C6_SetIsNew ==
    (last.op = "set" /\ IsFinite(last.arg)) =>
        /\ pv = Progress_new(last.arg)
        /\ pv = IF last.arg.v < 0 THEN Zero
                ELSE IF last.arg.v > 100 * Unit THEN Hundred
                ELSE last.arg

C6_Witness ==
    /\ last.op = "set"
    /\ last.prev = Hundred
    /\ last.arg = F(-25 * Unit)
    /\ pv = Zero

\* C7: is_done() is true exactly when the stored value is 100.0; so it is
\* true after a += that saturates at the upper bound and after new or set
\* with an input >= 100.0, and false for 99.0.
C7_IsDoneIffHundred ==
    /\ is_done(pv) <=> FEq(pv, Hundred)
    /\ (last.op \in {"new", "set"} /\ FLe(Hundred, last.arg)) => is_done(pv)
    /\ (last.op = "add" /\ InRange(last.prev) /\ IsFinite(last.arg)
            /\ last.prev.v + last.arg.v > 100 * Unit) => is_done(pv)
    /\ pv = F(99 * Unit) => ~is_done(pv)

C7_Witness ==
    /\ last.op = "add"
    /\ last.prev = F(75 * Unit)
    /\ last.arg = F(50 * Unit)
    /\ is_done(pv)

----------------------------------------------------------------------------
(* Properties of progress_bar_animation_system, checked under Spec *)

\* what the system is to leave in the Style of an entity it is given,
\* computed from that entity's own components
OwnResult(e) ==
    [width |-> IF mode[e] \in {ResizeWidth, ResizeBothDimensions}
               THEN Percent(progress[e]) ELSE style[e].width,
     height |-> IF mode[e] \in {ResizeHeight, ResizeBothDimensions}
                THEN Percent(progress[e]) ELSE style[e].height]

\* C2: for every entity the change filter passes to the system, with
\* Progress p and mode m, after the pass width is Percent(p) if m is
\* ResizeWidth or ResizeBothDimensions and else what it was, and height is
\* Percent(p) if m is ResizeHeight or ResizeBothDimensions and else what it
\* was.
C2_PassResizes ==
    [][progress_bar_animation_system =>
        \A e \in Query :
            /\ style'[e].width =
                   IF mode[e] \in {ResizeWidth, ResizeBothDimensions}
                   THEN Percent(progress[e]) ELSE style[e].width
            /\ style'[e].height =
                   IF mode[e] \in {ResizeHeight, ResizeBothDimensions}
                   THEN Percent(progress[e]) ELSE style[e].height]_vars

C2_Witness ==
    \E e \in alive :
        /\ mode[e] = ResizeWidth
        /\ progress[e] = F(75 * Unit)
        /\ seen[e] = progress[e]
        /\ style[e] = [width |-> Percent(F(75 * Unit)), height |-> Px(Hundred)]

C4_CustomUntouched ==
    [][progress_bar_animation_system =>
        \A e \in alive : mode[e] = Custom => style'[e] = style[e]]_vars

C4_Witness ==
    \E e \in alive :
        /\ mode[e] = Custom
        /\ progress[e] = F(75 * Unit)
        /\ seen[e] = progress[e]
        /\ style[e] = ExampleSize

\* C8: the system is idempotent: a second run over the same entities, with
\* the same Progress values and modes, leaves the Style the first run
\* produced, whatever the Style was before the first run.
C8_Idempotent ==
    [][progress_bar_animation_system =>
        \A order \in Orders(Query) : RunSystem(order, style') = style']_vars

C8_Witness ==
    \E e \in alive :
        /\ mode[e] = ResizeBothDimensions
        /\ seen[e] = progress[e]
        /\ style[e] = [width |-> Percent(progress[e]), height |-> Percent(progress[e])]

\* C9: the Style after a pass is the same for every order in which the
\* changed entities are processed: each entity's width and height come from
\* its own Progress, mode and prior Style alone.
C9_OrderIrrelevant ==
    \A order \in Orders(Query) :
        RunSystem(order, style) =
            [e \in alive |-> IF e \in Query THEN OwnResult(e) ELSE style[e]]

C9_Witness ==
    \E e, f \in Query :
        /\ e # f
        /\ progress[e] # progress[f]
        /\ mode[e] = ResizeWidth
        /\ mode[f] = ResizeBothDimensions

\* C10: a pass of the system leaves every Progress and every mode as it
\* was and creates or destroys no entity; it writes only the Style width or
\* height of entities in its input set, and every value it writes is a
\* Percent in [0, 100].
C10_WritesPercentInRange ==
    [][progress_bar_animation_system =>
        /\ alive' = alive
        /\ progress' = progress
        /\ mode' = mode
        /\ \A e \in alive :
            /\ style'[e] # style[e] => e \in Query
            /\ style'[e].width # style[e].width =>
                   style'[e].width.u = "Percent" /\ InRange(style'[e].width.x)
            /\ style'[e].height # style[e].height =>
                   style'[e].height.u = "Percent" /\ InRange(style'[e].height.x)]_vars

=============================================================================
